---- MODULE Spec2Model ----
(***************************************************************************)
(* Model of the admission/eviction engine of rocket-file-cache             *)
(* (src/src/lib.rs): the Cache struct, try_store, make_room_for_new_file,  *)
(* sorted_priorities, get, increment_access_count, get_or_cache and the    *)
(* two priority functions.  Arc<SizedFile> buffers live in an explicit     *)
(* heap with strong counts; the blob-store read is an input.               *)
(***************************************************************************)
EXTENDS Integers, Sequences, FiniteSets, TLC

VARIABLES size_limit, priority_function, file_map, access_count_map,
          heap, ret, last, mutex, callers, served

vars == <<size_limit, priority_function, file_map, access_count_map,
          heap, ret, last, mutex, callers, served>>

(* ---------------------------- bounds ----------------------------------- *)

\* cap on every access counter (usize in the code)
MaxCount == 3

Paths == {"X", "Y", "Z"}

\* the paths requested from a cache of the given budget
PathsFor(limit) == IF limit = 5 THEN Paths ELSE {"X", "Y"}

\* the file sizes the blob store hands out for a cache of the given budget
SizesFor(limit) ==
    CASE limit = 0 -> {0, 1}
      [] limit = 5 -> {1, 4}
      [] limit = 5500000 -> {1000000, 5000000}
      [] limit = 8000000 -> {5000000, 10000000}

PriorityFunctions == {"balanced", "access"}

\* the caches that are constructed: <<size_limit, priority_function>>
Configs == {<<0, "balanced">>, <<5, "balanced">>, <<5, "access">>,
            <<5500000, "balanced">>, <<8000000, "balanced">>}

None == [path |-> "none", file |-> <<"none", 0>>]

(* ------------------------ Arc<SizedFile> heap -------------------------- *)

\* SizedFile: the byte buffer is represented by its cached length
SizedFile(size) == [size |-> size, strong |-> 1]

\* Arc::new: a fresh allocation, distinct from every live one.  An address
\* is <<path the buffer was read for, n>>, n the least number that is free.
FreshId(hp, path) ==
    LET used == { id[2] : id \in { i \in DOMAIN hp : i[1] = path } }
    IN <<path, CHOOSE n \in 0..Cardinality(used) :
                  /\ n \notin used
                  /\ \A m \in 0..Cardinality(used) : m \notin used => n <= m>>

ArcNew(hp, path, size) == hp @@ (FreshId(hp, path) :> SizedFile(size))

ArcClone(hp, id) == [hp EXCEPT ![id].strong = @ + 1]

\* mutant: the buffer is freed by the first drop, whoever else holds it
ArcDropFreeing(hp, id) == [i \in DOMAIN hp \ {id} |-> hp[i]]

ArcDrop(hp, id) ==
    IF hp[id].strong = 1
    THEN [i \in DOMAIN hp \ {id} |-> hp[i]]
    ELSE [hp EXCEPT ![id].strong = @ - 1]

RECURSIVE ArcDropAll(_, _)
ArcDropAll(hp, ids) ==
    IF ids = {} THEN hp
    ELSE LET id == CHOOSE i \in ids : TRUE
         IN ArcDropAll(ArcDrop(hp, id), ids \ {id})

\* dropping an Option<CachedFile>
DropHandle(hp, h) == IF h = None THEN hp ELSE ArcDrop(hp, h.file)

(* ------------------------- priority functions -------------------------- *)

RECURSIVE SqrtIter(_, _)
SqrtIter(n, x) ==
    LET y == (x + (n \div x)) \div 2
    IN IF y >= x THEN x ELSE SqrtIter(n, y)

\* mutant: the square root is rounded to the nearest integer
IsqrtRounded(n) ==
    LET q == IF n = 0 THEN 0 ELSE SqrtIter(n, n)
    IN IF n - q * q > q THEN q + 1 ELSE q

\* (size as f64).sqrt() as usize
Isqrt(n) == IF n = 0 THEN 0 ELSE SqrtIter(n, n)

balanced_priority(access_count, size) == Isqrt(size) * access_count

access_priority(access_count, size) == access_count

ApplyPriority(pf, access_count, size) ==
    IF pf = "balanced" THEN balanced_priority(access_count, size)
    ELSE access_priority(access_count, size)

(* --------------------------- map helpers ------------------------------- *)

MapRemove(m, keys) == [k \in DOMAIN m \ keys |-> m[k]]

MapInsert(m, k, v) == [x \in DOMAIN m \cup {k} |-> IF x = k THEN v ELSE m[x]]

\* access_count_map.get(path).unwrap_or(&default)
CountOr(acm, path, default) == IF path \in DOMAIN acm THEN acm[path] ELSE default

RECURSIVE SumSizes(_, _, _)
SumSizes(fm, hp, keys) ==
    IF keys = {} THEN 0
    ELSE LET k == CHOOSE x \in keys : TRUE
         IN hp[fm[k]].size + SumSizes(fm, hp, keys \ {k})

size_bytes(fm, hp) == SumSizes(fm, hp, DOMAIN fm)

(* ------------------------- eviction search ----------------------------- *)

\* mutant: a resident entry without a counter is ranked with access count 0
PriorityEntryDefaultZero(fm, hp, acm, pf, file_key) ==
    LET size == hp[fm[file_key]].size
    IN <<file_key, ApplyPriority(pf, CountOr(acm, file_key, 0), size), size>>

\* the (PathBuf, priority, size) tuple sorted_priorities builds for file_key
PriorityEntry(fm, hp, acm, pf, file_key) ==
    LET access_count == CountOr(acm, file_key, 1)
        size == hp[fm[file_key]].size
    IN <<file_key, ApplyPriority(pf, access_count, size), size>>

\* The vectors sorted_priorities can return: the resident entries sorted from
\* highest to lowest priority.  The sort is stable and HashMap iteration order
\* is arbitrary, so entries of equal priority come in any order.
\* mutant: the entries are sorted with the lowest priority first
sorted_priorities_ascending(fm, hp, acm, pf) ==
    LET n == Cardinality(DOMAIN fm)
        entry == [k \in DOMAIN fm |-> PriorityEntry(fm, hp, acm, pf, k)]
    IN { [i \in 1..n |-> entry[order[i]]] :
           order \in { o \in [1..n -> DOMAIN fm] :
                         /\ \A i, j \in 1..n : i # j => o[i] # o[j]
                         /\ \A i, j \in 1..n : i < j => entry[o[i]][2] <= entry[o[j]][2] } }

sorted_priorities(fm, hp, acm, pf) ==
    LET n == Cardinality(DOMAIN fm)
        entry == [k \in DOMAIN fm |-> PriorityEntry(fm, hp, acm, pf, k)]
    IN { [i \in 1..n |-> entry[order[i]]] :
           order \in { o \in [1..n -> DOMAIN fm] :
                         /\ \A i, j \in 1..n : i # j => o[i] # o[j]
                         /\ \A i, j \in 1..n : i < j => entry[o[i]][2] >= entry[o[j]][2] } }

\* the while loop of make_room_for_new_file; the result tells whether the
\* marked paths are to be removed (ok) and, if not, which early return was taken
RECURSIVE MakeRoomLoop(_, _, _, _, _, _)
MakeRoomLoop(priorities, possibly_freed_space, priority_score_to_free, file_paths_to_remove, required_space, new_file_priority) ==
    IF ~(possibly_freed_space < required_space)
    THEN [ok |-> TRUE, err |-> "none", marked |-> file_paths_to_remove]
    ELSE IF priorities = <<>>
    THEN [ok |-> FALSE, err |-> "No more files to remove",
          marked |-> file_paths_to_remove]
    ELSE LET lowest == priorities[Len(priorities)]
             rest == SubSeq(priorities, 1, Len(priorities) - 1)
             freed == possibly_freed_space + lowest[3]
             score == priority_score_to_free + lowest[2]
             paths == file_paths_to_remove \cup {lowest[1]}
         IN IF score > new_file_priority
            THEN [ok |-> FALSE, err |-> "Priority of new file isn't higher",
                  marked |-> paths]
            ELSE MakeRoomLoop(rest, freed, score, paths,
                              required_space, new_file_priority)

\* mutant: the insertion goes ahead without the removal loop
RemovedByNone(search) == {}

\* mutant: every popped path is removed at once, also when the search aborts
RemovedByPartial(search) == search.marked

\* the paths make_room_for_new_file removes from file_map for a given search
RemovedBy(search) == IF search.ok THEN search.marked ELSE {}

\* mutant: running out of files to pop ends the loop instead of returning Err
MakeRoomIgnoringExhaustion(priorities, required_space, new_file_priority) ==
    LET search == MakeRoomLoop(priorities, 0, 0, {}, required_space, new_file_priority)
        ok == search.ok \/ search.err = "No more files to remove"
    IN [ok |-> ok, err |-> IF ok THEN "none" ELSE search.err,
        marked |-> search.marked, removed |-> IF ok THEN search.marked ELSE {}]

\* the while loop without the check of the accumulated priority
RECURSIVE MakeRoomLoopUnchecked(_, _, _, _)
MakeRoomLoopUnchecked(priorities, possibly_freed_space, file_paths_to_remove, required_space) ==
    IF ~(possibly_freed_space < required_space)
    THEN [ok |-> TRUE, err |-> "none", marked |-> file_paths_to_remove]
    ELSE IF priorities = <<>>
    THEN [ok |-> FALSE, err |-> "No more files to remove",
          marked |-> file_paths_to_remove]
    ELSE LET lowest == priorities[Len(priorities)]
         IN MakeRoomLoopUnchecked(SubSeq(priorities, 1, Len(priorities) - 1),
                                  possibly_freed_space + lowest[3],
                                  file_paths_to_remove \cup {lowest[1]},
                                  required_space)

\* mutant: files are removed until there is room, whatever their priority
MakeRoomWithoutPriorityCheck(priorities, required_space, new_file_priority) ==
    LET search == MakeRoomLoopUnchecked(priorities, 0, {}, required_space)
    IN [ok |-> search.ok, err |-> search.err, marked |-> search.marked,
        removed |-> RemovedBy(search)]

\* the while loop with each popped file compared on its own
RECURSIVE MakeRoomLoopEach(_, _, _, _, _)
MakeRoomLoopEach(priorities, possibly_freed_space, file_paths_to_remove, required_space, new_file_priority) ==
    IF ~(possibly_freed_space < required_space)
    THEN [ok |-> TRUE, err |-> "none", marked |-> file_paths_to_remove]
    ELSE IF priorities = <<>>
    THEN [ok |-> FALSE, err |-> "No more files to remove",
          marked |-> file_paths_to_remove]
    ELSE LET lowest == priorities[Len(priorities)]
             paths == file_paths_to_remove \cup {lowest[1]}
         IN IF lowest[2] > new_file_priority
            THEN [ok |-> FALSE, err |-> "Priority of new file isn't higher",
                  marked |-> paths]
            ELSE MakeRoomLoopEach(SubSeq(priorities, 1, Len(priorities) - 1),
                                  possibly_freed_space + lowest[3], paths,
                                  required_space, new_file_priority)

\* mutant: the new file is compared with each file it would replace, not
\* with their aggregate priority
MakeRoomComparingEach(priorities, required_space, new_file_priority) ==
    LET search == MakeRoomLoopEach(priorities, 0, {}, required_space, new_file_priority)
    IN [ok |-> search.ok, err |-> search.err, marked |-> search.marked,
        removed |-> RemovedBy(search)]

\* the while loop going on while the freed space is not above the required space
RECURSIVE MakeRoomLoopOneMore(_, _, _, _, _, _)
MakeRoomLoopOneMore(priorities, possibly_freed_space, priority_score_to_free, file_paths_to_remove, required_space, new_file_priority) ==
    IF ~(possibly_freed_space <= required_space)
    THEN [ok |-> TRUE, err |-> "none", marked |-> file_paths_to_remove]
    ELSE IF priorities = <<>>
    THEN [ok |-> possibly_freed_space >= required_space,
          err |-> IF possibly_freed_space >= required_space THEN "none"
                  ELSE "No more files to remove",
          marked |-> file_paths_to_remove]
    ELSE LET lowest == priorities[Len(priorities)]
             rest == SubSeq(priorities, 1, Len(priorities) - 1)
             freed == possibly_freed_space + lowest[3]
             score == priority_score_to_free + lowest[2]
             paths == file_paths_to_remove \cup {lowest[1]}
         IN IF score > new_file_priority
            THEN [ok |-> FALSE, err |-> "Priority of new file isn't higher",
                  marked |-> paths]
            ELSE MakeRoomLoopOneMore(rest, freed, score, paths,
                                     required_space, new_file_priority)

\* mutant: the search goes on until more than the required space is freed
MakeRoomFreeingMore(priorities, required_space, new_file_priority) ==
    LET search == MakeRoomLoopOneMore(priorities, 0, 0, {}, required_space, new_file_priority)
    IN [ok |-> search.ok, err |-> search.err, marked |-> search.marked,
        removed |-> RemovedBy(search)]

make_room_for_new_file(priorities, required_space, new_file_priority) ==
    LET search == MakeRoomLoop(priorities, 0, 0, {}, required_space, new_file_priority)
    IN [ok |-> search.ok, err |-> search.err, marked |-> search.marked,
        removed |-> RemovedBy(search)]

\* mutant: the size of the new file is left out of the required space
RequiredSpaceIgnoringNewFile(fm, hp, limit, size) == size_bytes(fm, hp) - limit

\* required_space_for_new_file of try_store
RequiredSpace(fm, hp, limit, size) == (size_bytes(fm, hp) + size) - limit

\* the branch of try_store that inserts without an eviction search
FitsWithoutEviction(required_space_for_new_file) == required_space_for_new_file < 0

\* mutant: the cause of make_room_for_new_file's Err is passed on
StoreErrorByCause(err) ==
    IF err = "No more files to remove" THEN "NoMoreFilesToRemove"
    ELSE "NewPriorityIsNotHighEnough"

\* the Err arm of try_store: whatever the Err of make_room_for_new_file says,
\* the error returned is NewPriorityIsNotHighEnough
StoreError(err) == "NewPriorityIsNotHighEnough"

\* The outcomes of try_store(path, file) with file.size = size: the result
\* returned and the paths removed from file_map (one outcome per vector
\* sorted_priorities may return).
try_store(fm, hp, acm, pf, limit, path, size) ==
    LET required_space_for_new_file == RequiredSpace(fm, hp, limit, size)
    IN IF FitsWithoutEviction(required_space_for_new_file)
       THEN { [result |-> "InsertedFileIntoAvailableSpace", removed |-> {},
               marked |-> {}, search |-> FALSE, err |-> "none"] }
       ELSE LET new_file_access_count == CountOr(acm, path, 0)
                new_file_priority == ApplyPriority(pf, new_file_access_count, size)
            IN { LET room == make_room_for_new_file(priorities,
                                 required_space_for_new_file, new_file_priority)
                 IN [result |-> IF room.ok THEN "ReplacedFile"
                                ELSE StoreError(room.err),
                     removed |-> room.removed, marked |-> room.marked,
                     search |-> TRUE, err |-> room.err] :
                 priorities \in sorted_priorities(fm, hp, acm, pf) }

IsErr(result) == result \in {"NewPriorityIsNotHighEnough", "NoMoreFilesToRemove"}

\* file_map and heap after try_store took outcome o for the Arc `file`
StoredMap(fm, path, file, o) ==
    IF IsErr(o.result) THEN MapRemove(fm, o.removed)
    ELSE MapInsert(MapRemove(fm, o.removed), path, file)

StoredHeap(fm, hp, path, file, o) ==
    LET evicted == { fm[k] : k \in o.removed }
        hp1 == ArcDropAll(hp, evicted)
        fm1 == MapRemove(fm, o.removed)
    IN IF IsErr(o.result) THEN ArcDrop(hp1, file)
       ELSE IF path \in DOMAIN fm1 THEN ArcDrop(hp1, fm1[path])
       ELSE hp1

\* mutant: the counter is set to 1 instead of being incremented
IncrementForgettingPrior(acm, path) == MapInsert(acm, path, 1)

\* increment_access_count
increment_access_count(acm, path) == MapInsert(acm, path, CountOr(acm, path, 0) + 1)

\* Cache::get
get(fm, path) == IF path \in DOMAIN fm THEN [path |-> path, file |-> fm[path]] ELSE None

(* ------------------------------ state ---------------------------------- *)

\* `ret` is the Option<CachedFile> the last call returned; the caller lets go
\* of it before the next call.  `last` records the last call and its result.
\* the request handlers sharing the cache through a Mutex<Cache>
Threads == {1, 2}

\* a handler that has no request to serve
Idle == [pc |-> "idle", path |-> "none", size |-> -1, count |-> -1,
         handle |-> None, calls |-> 0]

\* no handler has taken the lock or served a request
NoCallers ==
    /\ mutex = 0
    /\ callers = [t \in Threads |-> Idle]
    /\ served = [p \in Paths |-> 0]

NoOp == [op |-> "new", path |-> "none", read |-> "none", size |-> -1,
         result |-> "none", err |-> "none", removed |-> {}]

\* Cache::new / Cache::new_with_priority_function
Init ==
    /\ \E config \in Configs :
         /\ size_limit = config[1]
         /\ priority_function = config[2]
    /\ file_map = <<>>
    /\ access_count_map = <<>>
    /\ heap = <<>>
    /\ ret = None
    /\ last = NoOp
    /\ NoCallers

\* mutant: the counters of the removed paths are dropped with their files
TryStoreForgettingEvicted(path, size) ==
    LET hp == DropHandle(heap, ret)
        file == FreshId(hp, path)
        hp0 == ArcNew(hp, path, size)
    IN \E o \in try_store(file_map, hp0, access_count_map, priority_function,
                          size_limit, path, size) :
         /\ file_map' = StoredMap(file_map, path, file, o)
         /\ heap' = StoredHeap(file_map, hp0, path, file, o)
         /\ access_count_map' = MapRemove(access_count_map, o.removed)
         /\ ret' = None
         /\ last' = [op |-> "try_store", path |-> path, read |-> "none",
                     size |-> size, result |-> o.result, err |-> o.err,
                     removed |-> o.removed]
         /\ UNCHANGED <<mutex, callers, served, size_limit, priority_function>>

\* a direct call cache.try_store(path, Arc::new(file)) as in the tests
TryStore(path, size) ==
    LET hp == DropHandle(heap, ret)
        file == FreshId(hp, path)
        hp0 == ArcNew(hp, path, size)
    IN \E o \in try_store(file_map, hp0, access_count_map, priority_function,
                          size_limit, path, size) :
         /\ file_map' = StoredMap(file_map, path, file, o)
         /\ heap' = StoredHeap(file_map, hp0, path, file, o)
         /\ ret' = None
         /\ last' = [op |-> "try_store", path |-> path, read |-> "none",
                     size |-> size, result |-> o.result, err |-> o.err,
                     removed |-> o.removed]
         /\ UNCHANGED <<mutex, callers, served, size_limit, priority_function, access_count_map>>

\* a direct call cache.increment_access_count(&path) as in the tests
IncrementAccessCount(path) ==
    /\ CountOr(access_count_map, path, 0) < MaxCount
    /\ access_count_map' = increment_access_count(access_count_map, path)
    /\ heap' = DropHandle(heap, ret)
    /\ ret' = None
    /\ last' = [NoOp EXCEPT !.op = "increment_access_count", !.path = path]
    /\ UNCHANGED <<mutex, callers, served, size_limit, priority_function, file_map>>

\* mutant: a cache hit does not count the access
GetOrCacheHitNotCounting(pathbuf) ==
    /\ get(file_map, pathbuf) # None
    /\ ret' = get(file_map, pathbuf)
    /\ heap' = ArcClone(DropHandle(heap, ret), file_map[pathbuf])
    /\ last' = [NoOp EXCEPT !.op = "get_or_cache", !.path = pathbuf]
    /\ UNCHANGED <<mutex, callers, served, size_limit, priority_function, file_map, access_count_map>>

\* mutant: a cache hit hands the map's own reference to the caller
GetOrCacheHitTaking(pathbuf) ==
    /\ get(file_map, pathbuf) # None
    /\ CountOr(access_count_map, pathbuf, 0) < MaxCount
    /\ ret' = get(file_map, pathbuf)
    /\ file_map' = MapRemove(file_map, {pathbuf})
    /\ heap' = DropHandle(heap, ret)
    /\ access_count_map' = increment_access_count(access_count_map, pathbuf)
    /\ last' = [NoOp EXCEPT !.op = "get_or_cache", !.path = pathbuf]
    /\ UNCHANGED <<mutex, callers, served, size_limit, priority_function>>

\* get_or_cache, cache hit
GetOrCacheHit(pathbuf) ==
    /\ get(file_map, pathbuf) # None
    /\ CountOr(access_count_map, pathbuf, 0) < MaxCount
    /\ LET cache_file == get(file_map, pathbuf)
       IN /\ ret' = cache_file
          /\ heap' = ArcClone(DropHandle(heap, ret), cache_file.file)
    /\ access_count_map' = increment_access_count(access_count_map, pathbuf)
    /\ last' = [NoOp EXCEPT !.op = "get_or_cache", !.path = pathbuf]
    /\ UNCHANGED <<mutex, callers, served, size_limit, priority_function, file_map>>

\* mutant: the access is counted before the read is known to have succeeded
GetOrCacheReadFailsCounting(pathbuf) ==
    /\ get(file_map, pathbuf) = None
    /\ CountOr(access_count_map, pathbuf, 0) < MaxCount
    /\ access_count_map' = increment_access_count(access_count_map, pathbuf)
    /\ ret' = None
    /\ heap' = DropHandle(heap, ret)
    /\ last' = [NoOp EXCEPT !.op = "get_or_cache", !.path = pathbuf, !.read = "failed"]
    /\ UNCHANGED <<mutex, callers, served, size_limit, priority_function, file_map>>

\* get_or_cache, cache miss and SizedFile::open fails
GetOrCacheReadFails(pathbuf) ==
    /\ get(file_map, pathbuf) = None
    /\ ret' = None
    /\ heap' = DropHandle(heap, ret)
    /\ last' = [NoOp EXCEPT !.op = "get_or_cache", !.path = pathbuf, !.read = "failed"]
    /\ UNCHANGED <<mutex, callers, served, size_limit, priority_function, file_map, access_count_map>>

\* mutant: the file is only served when try_store accepted it
GetOrCacheReadOkServingOnlyCached(pathbuf, size) ==
    /\ get(file_map, pathbuf) = None
    /\ CountOr(access_count_map, pathbuf, 0) < MaxCount
    /\ LET acm == increment_access_count(access_count_map, pathbuf)
           hp == DropHandle(heap, ret)
           arc_file == FreshId(hp, pathbuf)
           hp0 == ArcNew(hp, pathbuf, size)
       IN \E o \in try_store(file_map, hp0, acm, priority_function,
                             size_limit, pathbuf, size) :
            /\ access_count_map' = acm
            /\ file_map' = StoredMap(file_map, pathbuf, arc_file, o)
            /\ heap' = IF IsErr(o.result)
                       THEN StoredHeap(file_map, hp0, pathbuf, arc_file, o)
                       ELSE ArcClone(StoredHeap(file_map, hp0, pathbuf, arc_file, o), arc_file)
            /\ ret' = IF IsErr(o.result) THEN None
                      ELSE [path |-> pathbuf, file |-> arc_file]
            /\ last' = [op |-> "get_or_cache", path |-> pathbuf, read |-> "ok",
                        size |-> size, result |-> o.result, err |-> o.err,
                        removed |-> o.removed]
    /\ UNCHANGED <<mutex, callers, served, size_limit, priority_function>>

\* mutant: the access is counted after the attempt to store the file
GetOrCacheReadOkCountingAfter(pathbuf, size) ==
    /\ get(file_map, pathbuf) = None
    /\ CountOr(access_count_map, pathbuf, 0) < MaxCount
    /\ LET hp == DropHandle(heap, ret)
           arc_file == FreshId(hp, pathbuf)
           hp0 == ArcClone(ArcNew(hp, pathbuf, size), arc_file)
       IN \E o \in try_store(file_map, hp0, access_count_map, priority_function,
                             size_limit, pathbuf, size) :
            /\ access_count_map' = increment_access_count(access_count_map, pathbuf)
            /\ file_map' = StoredMap(file_map, pathbuf, arc_file, o)
            /\ heap' = StoredHeap(file_map, hp0, pathbuf, arc_file, o)
            /\ ret' = [path |-> pathbuf, file |-> arc_file]
            /\ last' = [op |-> "get_or_cache", path |-> pathbuf, read |-> "ok",
                        size |-> size, result |-> o.result, err |-> o.err,
                        removed |-> o.removed]
    /\ UNCHANGED <<mutex, callers, served, size_limit, priority_function>>

\* get_or_cache, cache miss and SizedFile::open returns a file of `size` bytes
GetOrCacheReadOk(pathbuf, size) ==
    /\ get(file_map, pathbuf) = None
    /\ CountOr(access_count_map, pathbuf, 0) < MaxCount
    /\ LET acm == increment_access_count(access_count_map, pathbuf)
           hp == DropHandle(heap, ret)
           arc_file == FreshId(hp, pathbuf)
           hp0 == ArcClone(ArcNew(hp, pathbuf, size), arc_file)
       IN \E o \in try_store(file_map, hp0, acm, priority_function,
                             size_limit, pathbuf, size) :
            /\ access_count_map' = acm
            /\ file_map' = StoredMap(file_map, pathbuf, arc_file, o)
            /\ heap' = StoredHeap(file_map, hp0, pathbuf, arc_file, o)
            /\ ret' = [path |-> pathbuf, file |-> arc_file]
            /\ last' = [op |-> "get_or_cache", path |-> pathbuf, read |-> "ok",
                        size |-> size, result |-> o.result, err |-> o.err,
                     removed |-> o.removed]
    /\ UNCHANGED <<mutex, callers, served, size_limit, priority_function>>

\* Responder::respond_to consumes the CachedFile that get_or_cache returned
RespondTo ==
    /\ ret # None
    /\ ret' = None
    /\ heap' = DropHandle(heap, ret)
    /\ last' = [NoOp EXCEPT !.op = "respond_to"]
    /\ UNCHANGED <<mutex, callers, served, size_limit, priority_function, file_map, access_count_map>>

Next ==
    \/ \E path \in PathsFor(size_limit), size \in SizesFor(size_limit) : TryStore(path, size)
    \/ \E path \in PathsFor(size_limit) : IncrementAccessCount(path)
    \/ \E path \in PathsFor(size_limit) : GetOrCacheHit(path)
    \/ \E path \in PathsFor(size_limit) : GetOrCacheReadFails(path)
    \/ \E path \in PathsFor(size_limit), size \in SizesFor(size_limit) : GetOrCacheReadOk(path, size)
    \/ RespondTo

Spec == Init /\ [][Next]_vars

(* ------------ a caller that keeps the CachedFile it was given ----------- *)

\* Cache::new(size_limit) with the given budget and priority function
NewCache(limit, pf) ==
    /\ size_limit = limit
    /\ priority_function = pf
    /\ file_map = <<>>
    /\ access_count_map = <<>>
    /\ heap = <<>>
    /\ ret = None
    /\ last = NoOp
    /\ NoCallers

\* cache.try_store(path, Arc::new(file)) while the caller still holds the
\* CachedFile of an earlier get_or_cache
TryStoreHolding(path, size) ==
    LET file == FreshId(heap, path)
        hp0 == ArcNew(heap, path, size)
    IN /\ ret # None
       /\ \E o \in try_store(file_map, hp0, access_count_map, priority_function,
                             size_limit, path, size) :
            /\ file_map' = StoredMap(file_map, path, file, o)
            /\ heap' = StoredHeap(file_map, hp0, path, file, o)
            /\ last' = [op |-> "try_store", path |-> path, read |-> "none",
                        size |-> size, result |-> o.result, err |-> o.err,
                        removed |-> o.removed]
            /\ UNCHANGED <<mutex, callers, served, size_limit, priority_function, access_count_map, ret>>

InitHandles == NewCache(5500000, "balanced")

NextHandles ==
    \/ Next
    \/ \E path \in PathsFor(size_limit), size \in SizesFor(size_limit) : TryStoreHolding(path, size)

SpecHandles == InitHandles /\ [][NextHandles]_vars

(* ------------- request handlers behind cache.lock().unwrap() ------------ *)

MaxCalls == 2

\* a handler receives a request for path
Call(t, path) ==
    /\ callers[t].pc = "idle"
    /\ callers[t].calls < MaxCalls
    /\ callers' = [callers EXCEPT ![t] = [Idle EXCEPT !.pc = "lock", !.path = path,
                                                      !.calls = callers[t].calls + 1]]
    /\ UNCHANGED <<size_limit, priority_function, file_map, access_count_map, heap, ret, last, mutex, served>>

\* mutant: the handler enters get_or_cache without waiting for the lock
LockNotWaiting(t) ==
    /\ callers[t].pc = "lock"
    /\ mutex' = t
    /\ callers' = [callers EXCEPT ![t].pc = "get"]
    /\ UNCHANGED <<size_limit, priority_function, file_map, access_count_map, heap, ret, last, served>>

\* cache.lock().unwrap()
Lock(t) ==
    /\ callers[t].pc = "lock"
    /\ mutex = 0
    /\ mutex' = t
    /\ callers' = [callers EXCEPT ![t].pc = "get"]
    /\ UNCHANGED <<size_limit, priority_function, file_map, access_count_map, heap, ret, last, served>>

\* get_or_cache: self.get(&pathbuf)
LockedGet(t) ==
    /\ callers[t].pc = "get"
    /\ LET cache_file == get(file_map, callers[t].path)
       IN IF cache_file # None
          THEN /\ heap' = ArcClone(heap, cache_file.file)
               /\ callers' = [callers EXCEPT ![t].pc = "read_count",
                                             ![t].handle = cache_file]
          ELSE /\ heap' = heap
               /\ callers' = [callers EXCEPT ![t].pc = "open"]
    /\ UNCHANGED <<size_limit, priority_function, file_map, access_count_map, ret, last, mutex, served>>

\* get_or_cache: SizedFile::open returns Err
LockedOpenFails(t) ==
    /\ callers[t].pc = "open"
    /\ callers' = [callers EXCEPT ![t].pc = "unlock"]
    /\ UNCHANGED <<size_limit, priority_function, file_map, access_count_map, heap, ret, last, mutex, served>>

\* get_or_cache: SizedFile::open returns a file of `size` bytes
LockedOpenOk(t, size) ==
    /\ callers[t].pc = "open"
    /\ callers' = [callers EXCEPT ![t].pc = "read_count", ![t].size = size]
    /\ UNCHANGED <<size_limit, priority_function, file_map, access_count_map, heap, ret, last, mutex, served>>

\* increment_access_count: entry(path).or_insert(0)
LockedReadCount(t) ==
    /\ callers[t].pc = "read_count"
    /\ callers' = [callers EXCEPT ![t].pc = "write_count",
                                  ![t].count = CountOr(access_count_map, callers[t].path, 0)]
    /\ UNCHANGED <<size_limit, priority_function, file_map, access_count_map, heap, ret, last, mutex, served>>

\* increment_access_count: *count += 1
LockedWriteCount(t) ==
    /\ callers[t].pc = "write_count"
    /\ access_count_map' = MapInsert(access_count_map, callers[t].path, callers[t].count + 1)
    /\ callers' = [callers EXCEPT ![t].pc = IF callers[t].handle # None
                                            THEN "unlock" ELSE "store"]
    /\ UNCHANGED <<size_limit, priority_function, file_map, heap, ret, last, mutex, served>>

\* get_or_cache: Arc::new(file), the CachedFile and self.try_store
LockedStore(t) ==
    /\ callers[t].pc = "store"
    /\ LET pathbuf == callers[t].path
           size == callers[t].size
           arc_file == FreshId(heap, pathbuf)
           hp0 == ArcClone(ArcNew(heap, pathbuf, size), arc_file)
       IN \E o \in try_store(file_map, hp0, access_count_map, priority_function,
                             size_limit, pathbuf, size) :
            /\ file_map' = StoredMap(file_map, pathbuf, arc_file, o)
            /\ heap' = StoredHeap(file_map, hp0, pathbuf, arc_file, o)
            /\ callers' = [callers EXCEPT ![t].pc = "unlock",
                                          ![t].handle = [path |-> pathbuf, file |-> arc_file]]
    /\ UNCHANGED <<size_limit, priority_function, access_count_map, ret, last, mutex, served>>

\* get_or_cache returns and the MutexGuard is dropped
Unlock(t) ==
    /\ callers[t].pc = "unlock"
    /\ mutex' = IF mutex = t THEN 0 ELSE mutex
    /\ served' = IF callers[t].handle # None
                  THEN [served EXCEPT ![callers[t].path] = @ + 1]
                  ELSE served
    /\ callers' = [callers EXCEPT ![t].pc = "respond"]
    /\ UNCHANGED <<size_limit, priority_function, file_map, access_count_map, heap, ret, last>>

\* the handler's Option<CachedFile> is turned into the response and dropped
Respond(t) ==
    /\ callers[t].pc = "respond"
    /\ heap' = DropHandle(heap, callers[t].handle)
    /\ callers' = [callers EXCEPT ![t] = [Idle EXCEPT !.calls = callers[t].calls]]
    /\ UNCHANGED <<size_limit, priority_function, file_map, access_count_map, ret, last, mutex, served>>

InitLocked == NewCache(5, "balanced")

NextLocked ==
    \/ \E t \in Threads, path \in {"X", "Y"} : Call(t, path)
    \/ \E t \in Threads : Lock(t)
    \/ \E t \in Threads : LockedGet(t)
    \/ \E t \in Threads : LockedOpenFails(t)
    \/ \E t \in Threads, size \in SizesFor(size_limit) : LockedOpenOk(t, size)
    \/ \E t \in Threads : LockedReadCount(t)
    \/ \E t \in Threads : LockedWriteCount(t)
    \/ \E t \in Threads : LockedStore(t)
    \/ \E t \in Threads : Unlock(t)
    \/ \E t \in Threads : Respond(t)

SpecLocked == InitLocked /\ [][NextLocked]_vars

(* ------------- one file requested again and again (path Z) ------------- *)

\* before the first request for Z: other files are stored in the cache
StoreOther(path, size) ==
    /\ last.op # "get_or_cache"
    /\ TryStore(path, size)

\* the first get_or_cache for Z: the file is readable and has `size` bytes
FirstRequest(size) ==
    /\ last.op # "get_or_cache"
    /\ GetOrCacheReadOk("Z", size)

\* a further get_or_cache for Z that misses: the same file is read again
RepeatedMiss ==
    /\ last.op = "get_or_cache" /\ last.read = "ok"
    /\ GetOrCacheReadOk("Z", last.size)

\* a further get_or_cache for Z that hits
RepeatedHit ==
    /\ last.op = "get_or_cache"
    /\ GetOrCacheHit("Z")

\* the next request for Z
Request ==
    \/ \E size \in SizesFor(size_limit) : FirstRequest(size)
    \/ RepeatedMiss
    \/ RepeatedHit

InitEventual == Init /\ size_limit = 5

NextEventual ==
    \/ \E path \in {"X", "Y"}, size \in SizesFor(size_limit) : StoreOther(path, size)
    \/ Request

\* the request for Z is repeated for as long as it can be made
SpecEventual == InitEventual /\ [][NextEventual]_vars /\ WF_vars(Request)

(* --------------------- the priority function on its own ----------------- *)

MaxProbeCount == 4

MaxProbeSize == 40

\* the file sizes the priority function is called with: every small size, the
\* sizes of the test files and the sizes around 2236 * 2236 and 3162 * 3162
ProbeSizes ==
    (0..MaxProbeSize) \cup {1000000, 5000000, 10000000}
                     \cup {1024 * 1024, 2 * 1024 * 1024, 5 * 1024 * 1024}
                     \cup {4999695, 4999696, 9998243, 9998244}

\* (self.priority_function)(access_count, size)
PriorityCall(access_count, size) ==
    /\ last' = [op |-> "priority_function", access_count |-> access_count,
                size |-> size,
                priority |-> ApplyPriority(priority_function, access_count, size)]
    /\ UNCHANGED <<mutex, callers, served, size_limit, priority_function, file_map, access_count_map, heap, ret>>

NextPriority ==
    \E access_count \in 0..MaxProbeCount, size \in ProbeSizes : PriorityCall(access_count, size)

SpecPriority == Init /\ [][NextPriority]_vars

(* ------- the files of the test new_file_replaces_lowest_priority_file --- *)

MEG1 == 1048576
MEG2 == MEG1 * 2
MEG5 == MEG1 * 5

\* create_test_file: the file the blob store holds under each path
TestFile(path) ==
    CASE path = "X" -> MEG5
      [] path = "Y" -> MEG2
      [] path = "Z" -> MEG1

InitMiB == NewCache(MEG1 * 7 + 2000, "balanced")

NextMiB ==
    \/ \E path \in Paths : TryStore(path, TestFile(path))
    \/ \E path \in Paths : IncrementAccessCount(path)
    \/ \E path \in Paths : GetOrCacheHit(path)
    \/ \E path \in Paths : GetOrCacheReadFails(path)
    \/ \E path \in Paths : GetOrCacheReadOk(path, TestFile(path))
    \/ RespondTo

SpecMiB == InitMiB /\ [][NextMiB]_vars

(* ------------------------------ claims --------------------------------- *)

\* the last call ran try_store (directly, or inside get_or_cache after a read)
TriedStore(l) == l.result # "none"

\* the sizes of the buffers file_map holds
ResidentSizes(fm, hp) == [k \in DOMAIN fm |-> hp[fm[k]].size]

\* C1: budget invariant: in every reachable state the sizes of the entries of
\* file_map sum to at most size_limit.
C1_BudgetInvariant == size_bytes(file_map, heap) <= size_limit

\* C1 witness: an eviction (with a second entry kept) has filled the budget
\* exactly.
C1_Witness ==
    /\ last.result = "ReplacedFile"
    /\ last.removed # {}
    /\ Cardinality(DOMAIN file_map) >= 2
    /\ size_bytes(file_map, heap) = size_limit

\* C2: no-op on rejection: a try_store that returns the error leaves file_map
\* (keys, buffers, total size) as it was; nothing marked has been removed.
C2_NoOpOnRejection ==
    [][(TriedStore(last') /\ IsErr(last'.result)) =>
         /\ file_map' = file_map
         /\ ResidentSizes(file_map', heap') = ResidentSizes(file_map, heap)
         /\ size_bytes(file_map', heap') = size_bytes(file_map, heap)
         /\ last'.removed = {}]_vars

\* C2 witness: a rejected try_store whose search had popped (marked) every
\* resident entry before it gave up.
C2_Witness ==
    /\ last.op = "try_store"
    /\ IsErr(last.result)
    /\ last.err = "No more files to remove"
    /\ Cardinality(DOMAIN file_map) >= 2

\* C3: a file larger than size_limit is never admitted: try_store of it
\* returns the error and leaves file_map unchanged, whatever the counters.
C3_OversizeRejected ==
    [][(TriedStore(last') /\ last'.size > size_limit) =>
         /\ IsErr(last'.result)
         /\ file_map' = file_map]_vars

\* C3 witness: Scenario A: empty cache of 8,000,000 bytes, try_store of a
\* 10,000,000 byte file is rejected.
C3_Witness ==
    /\ size_limit = 8000000
    /\ file_map = <<>>
    /\ last.op = "try_store"
    /\ last.size = 10000000
    /\ IsErr(last.result)

\* the counters of all paths but p are the same in acm1 and acm2
SameCountsExcept(acm1, acm2, p) ==
    /\ DOMAIN acm1 \ {p} = DOMAIN acm2 \ {p}
    /\ \A q \in DOMAIN acm1 \ {p} : acm1[q] = acm2[q]

\* Scenario B's cache: 5,500,000 bytes, balanced policy, X (5,000,000 bytes)
\* resident without a counter entry
ScenarioBStored ==
    /\ size_limit = 5500000
    /\ priority_function = "balanced"
    /\ DOMAIN file_map = {"X"}
    /\ heap[file_map["X"]].size = 5000000
    /\ "X" \notin DOMAIN access_count_map

\* C4: Scenario B: in an empty cache of 5,500,000 bytes try_store of X
\* (5,000,000 bytes) is InsertedFileIntoAvailableSpace; with X resident and
\* without a counter, try_store of Y (1,000,000 bytes) is rejected while Y's
\* counter is 1 or 2 and is ReplacedFile when it is 3, leaving only Y resident.
C4_ScenarioB ==
    [][(last'.op = "try_store" /\ size_limit = 5500000
          /\ priority_function = "balanced") =>
         /\ (file_map = <<>> /\ last'.path = "X" /\ last'.size = 5000000) =>
               /\ last'.result = "InsertedFileIntoAvailableSpace"
               /\ DOMAIN file_map' = {"X"}
         /\ (ScenarioBStored /\ last'.path = "Y" /\ last'.size = 1000000) =>
               /\ CountOr(access_count_map, "Y", 0) \in {1, 2} =>
                     /\ IsErr(last'.result)
                     /\ file_map' = file_map
               /\ CountOr(access_count_map, "Y", 0) = 3 =>
                     /\ last'.result = "ReplacedFile"
                     /\ DOMAIN file_map' = {"Y"}
                     /\ heap'[file_map'["Y"]].size = 1000000]_vars

\* C4 witness: the end of Scenario B: Y, counted three times, has replaced X.
C4_Witness ==
    /\ size_limit = 5500000
    /\ priority_function = "balanced"
    /\ last.op = "try_store" /\ last.path = "Y" /\ last.size = 1000000
    /\ last.result = "ReplacedFile"
    /\ last.removed = {"X"}
    /\ DOMAIN file_map = {"Y"}
    /\ access_count_map = [p \in {"Y"} |-> 3]

\* C5: counter persistence: no step removes a key of access_count_map or
\* lowers a counter; an evicted path keeps its counter; a get_or_cache that
\* reads a path again raises its counter from the prior value by 1.
C5_CounterPersistence ==
    [][/\ DOMAIN access_count_map \subseteq DOMAIN access_count_map'
       /\ \A p \in DOMAIN access_count_map :
              access_count_map'[p] >= access_count_map[p]
       /\ \A p \in (DOMAIN file_map \ DOMAIN file_map') \cup last'.removed :
              /\ p \in DOMAIN access_count_map <=> p \in DOMAIN access_count_map'
              /\ p \in DOMAIN access_count_map =>
                    access_count_map'[p] = access_count_map[p]
       /\ (last'.op = "get_or_cache" /\ last'.read = "ok") =>
              /\ last'.path \in DOMAIN access_count_map'
              /\ access_count_map'[last'.path]
                   = CountOr(access_count_map, last'.path, 0) + 1]_vars

\* C5 witness: a path that was accessed twice has just been evicted and still
\* has its counter.
C5_Witness ==
    \E p \in last.removed :
        /\ p \notin DOMAIN file_map
        /\ p \in DOMAIN access_count_map
        /\ access_count_map[p] = 2

\* C6: failed read: a get_or_cache whose read fails returns None and leaves
\* file_map and access_count_map unchanged (no counter entry is created).
C6_FailedRead ==
    [][(last'.op = "get_or_cache" /\ last'.read = "failed") =>
         /\ last'.path \notin DOMAIN file_map
         /\ ret' = None
         /\ file_map' = file_map
         /\ access_count_map' = access_count_map]_vars

\* C6 witness: after a failed read of a path that never had a counter, in a
\* cache that holds files and counters of other paths.
C6_Witness ==
    /\ last.op = "get_or_cache" /\ last.read = "failed"
    /\ ret = None
    /\ last.path \notin DOMAIN access_count_map
    /\ access_count_map # <<>>
    /\ file_map # <<>>

\* C7: cache hit: get_or_cache of a resident path reads nothing, returns a
\* handle on the very buffer file_map holds, raises that path's counter by
\* exactly 1 and leaves file_map and the other counters unchanged.
C7_CacheHit ==
    [][(last'.op = "get_or_cache" /\ last'.path \in DOMAIN file_map) =>
         /\ last'.read = "none"
         /\ last'.result = "none"
         /\ ret' = [path |-> last'.path, file |-> file_map[last'.path]]
         /\ heap'[ret'.file].strong >= 2
         /\ heap'[ret'.file].size = heap[file_map[last'.path]].size
         /\ last'.path \in DOMAIN access_count_map'
         /\ access_count_map'[last'.path]
              = CountOr(access_count_map, last'.path, 0) + 1
         /\ SameCountsExcept(access_count_map', access_count_map, last'.path)
         /\ file_map' = file_map]_vars

\* C7 witness: a hit on a path whose counter has reached 3, the handle sharing
\* the resident buffer.
C7_Witness ==
    /\ last.op = "get_or_cache" /\ last.read = "none"
    /\ last.path \in DOMAIN file_map
    /\ ret.file = file_map[last.path]
    /\ access_count_map[last.path] = 3

\* C8: serving is never blocked by caching: a get_or_cache that misses and
\* reads the file returns a handle to the file just read and raises the path's
\* counter by exactly 1, whatever try_store returned.
C8_ServedRegardless ==
    [][(last'.op = "get_or_cache" /\ last'.read = "ok") =>
         /\ last'.path \notin DOMAIN file_map
         /\ last'.result \in {"InsertedFileIntoAvailableSpace", "ReplacedFile",
                              "NewPriorityIsNotHighEnough"}
         /\ ret' # None
         /\ ret'.path = last'.path
         /\ ret'.file \in DOMAIN heap'
         /\ heap'[ret'.file].size = last'.size
         /\ IF IsErr(last'.result)
            THEN last'.path \notin DOMAIN file_map'
            ELSE file_map'[last'.path] = ret'.file
         /\ last'.path \in DOMAIN access_count_map'
         /\ access_count_map'[last'.path]
              = CountOr(access_count_map, last'.path, 0) + 1
         /\ SameCountsExcept(access_count_map', access_count_map, last'.path)]_vars

\* C8 witness: a file that try_store rejected is served all the same, the
\* handle being the only holder of its buffer.
C8_Witness ==
    /\ last.op = "get_or_cache" /\ last.read = "ok"
    /\ IsErr(last.result)
    /\ ret # None
    /\ ret.path \notin DOMAIN file_map
    /\ heap[ret.file].strong = 1

\* C9: every try_store with required_space <= 0, the exact fit included,
\* returns InsertedFileIntoAvailableSpace.
C9_FitsMeansInserted ==
    [][(TriedStore(last')
          /\ RequiredSpace(file_map, heap, size_limit, last'.size) <= 0) =>
         last'.result = "InsertedFileIntoAvailableSpace"]_vars

\* C10 as stated: with size_limit = 0 every try_store returns the error and
\* file_map stays empty.
C10_ZeroBudgetAdmitsNothing ==
    size_limit = 0 =>
        /\ file_map = <<>>
        /\ TriedStore(last) => IsErr(last.result)

\* C10 amended: with size_limit = 0 every try_store of a file of at least one
\* byte returns the error and leaves file_map unchanged, file_map only ever
\* holds zero-length files, and get_or_cache returns a handle for every file
\* that was read.
C10_ZeroBudget ==
    [][size_limit = 0 =>
         /\ (TriedStore(last') /\ last'.size >= 1) =>
               /\ IsErr(last'.result)
               /\ file_map' = file_map
         /\ \A k \in DOMAIN file_map' : heap'[file_map'[k]].size = 0
         /\ (last'.op = "get_or_cache" /\ last'.read = "ok") =>
               /\ ret' # None
               /\ heap'[ret'.file].size = last'.size]_vars

\* C10 witness: with a zero budget a one-byte file is read, rejected by
\* try_store and served.
C10_Witness ==
    /\ size_limit = 0
    /\ last.op = "get_or_cache" /\ last.read = "ok" /\ last.size = 1
    /\ IsErr(last.result)
    /\ ret # None

\* the priority of resident entry k when a path without a counter is given
\* the access count `default`
RankWith(default, k) ==
    LET count == IF k \in DOMAIN access_count_map THEN access_count_map[k] ELSE default
        size == heap[file_map[k]].size
    IN IF priority_function = "balanced" THEN Isqrt(size) * count ELSE count

RECURSIVE SumRankWith(_, _)
SumRankWith(default, keys) ==
    IF keys = {} THEN 0
    ELSE LET k == CHOOSE x \in keys : TRUE
         IN RankWith(default, k) + SumRankWith(default, keys \ {k})

\* the priority of the candidate of the try_store recorded in l, computed from
\* the counters acm, a path without a counter being given the count `default`
CandidateRankWith(default, acm, l) ==
    LET count == IF l.path \in DOMAIN acm THEN acm[l.path] ELSE default
    IN IF priority_function = "balanced" THEN Isqrt(l.size) * count ELSE count

\* a step whose try_store accepted the file after the search, or was stopped
\* by the priority check, agrees with a search that gives paths without a
\* counter the count dc (candidate) and dr (resident entries)
SearchUsesDefaults(dc, dr) ==
    /\ last'.result = "ReplacedFile" =>
          SumRankWith(dr, last'.removed)
            <= CandidateRankWith(dc, access_count_map', last')
    /\ last'.err = "Priority of new file isn't higher" =>
          SumRankWith(dr, DOMAIN file_map)
            > CandidateRankWith(dc, access_count_map', last')

\* C11 as stated: wherever a priority is computed a path without a counter
\* entry counts as accessed 0 times, as the candidate and as a resident entry.
C11_DefaultCountZero == [][SearchUsesDefaults(0, 0)]_vars

\* C11 amended: a path without a counter entry counts as accessed 0 times when
\* it is the candidate of try_store and as accessed once when it is a resident
\* entry ranked by the eviction search.
C11_DefaultCounts == [][SearchUsesDefaults(0, 1)]_vars

\* C11 witness: X (5,000,000 bytes) is resident without a counter and the
\* search refuses to evict it for Y, counted once (priority 1000 against
\* 2236 at count 1, against 0 at count 0).
C11_Witness ==
    /\ ScenarioBStored
    /\ last.op = "try_store" /\ last.path = "Y" /\ last.size = 1000000
    /\ last.err = "Priority of new file isn't higher"
    /\ access_count_map = [p \in {"Y"} |-> 1]

\* C12: single public error: try_store returns NewPriorityIsNotHighEnough both
\* when the priority check stops the search and when the resident set is
\* exhausted, and never returns NoMoreFilesToRemove.
C12_SinglePublicError ==
    TriedStore(last) =>
        /\ last.result # "NoMoreFilesToRemove"
        /\ last.err \in {"No more files to remove", "Priority of new file isn't higher"}
              <=> last.result = "NewPriorityIsNotHighEnough"
        /\ last.err = "none"
              <=> last.result \in {"ReplacedFile", "InsertedFileIntoAvailableSpace"}

\* C12 witness: the search ran out of resident entries, with file_map not
\* empty, and the error returned is NewPriorityIsNotHighEnough.
C12_Witness ==
    /\ last.err = "No more files to remove"
    /\ last.result = "NewPriorityIsNotHighEnough"
    /\ last.op = "get_or_cache"
    /\ file_map # <<>>

\* the number of references to buffer id: entries of file_map and the
\* CachedFile the caller holds
Holders(id) ==
    Cardinality({k \in DOMAIN file_map : file_map[k] = id})
      + (IF ret # None /\ ret.file = id THEN 1 ELSE 0)

\* every referenced buffer is alive and counts exactly its holders
BuffersAlive ==
    /\ \A k \in DOMAIN file_map : file_map[k] \in DOMAIN heap
    /\ ret # None => ret.file \in DOMAIN heap
    /\ \A id \in DOMAIN heap : heap[id].strong > 0 /\ heap[id].strong = Holders(id)

\* a reference kept across a step designates the same, unchanged buffer, and
\* evicting the path of the handle the caller keeps takes one reference away
\* (get_or_cache hands the caller a new handle; any other step that leaves
\* ret as it is leaves the caller with the handle they had)
BuffersKept ==
    /\ \A k \in DOMAIN file_map \cap DOMAIN file_map' :
          file_map'[k] = file_map[k] =>
             heap'[file_map[k]].size = heap[file_map[k]].size
    /\ (ret # None /\ ret' = ret /\ last'.op # "get_or_cache") =>
          /\ heap'[ret.file].size = heap[ret.file].size
          /\ (ret.path \in last'.removed /\ file_map[ret.path] = ret.file) =>
                /\ heap'[ret.file].strong = heap[ret.file].strong - 1
                /\ \A k \in DOMAIN file_map' : file_map'[k] # ret.file

\* C13: handles survive eviction: a buffer stays alive, with a holder count
\* > 0 equal to its number of holders and with unchanged contents, as long as
\* file_map or the outstanding CachedFile references it; evicting a path takes
\* away only the engine's reference.
C13_HandlesSurviveEviction == []BuffersAlive /\ [][BuffersKept]_vars

\* C13 witness: the caller holds the handle of the 1,000,000-byte file whose
\* path the last try_store evicted; the handle is the buffer's only holder.
C13_Witness ==
    /\ ret # None
    /\ last.result = "ReplacedFile"
    /\ ret.path \in last.removed
    /\ \A k \in DOMAIN file_map : file_map[k] # ret.file
    /\ ret.file \in DOMAIN heap
    /\ heap[ret.file] = [size |-> 1000000, strong |-> 1]

\* the priority resident entry k has during the call of this step: get_or_cache
\* has counted the access before it calls try_store, and try_store leaves the
\* counters alone
RankDuring(k) ==
    LET count == IF k \in DOMAIN access_count_map' THEN access_count_map'[k] ELSE 1
        size == heap[file_map[k]].size
    IN IF priority_function = "balanced" THEN Isqrt(size) * count ELSE count

\* what try_store removed ranks no higher than what it kept
RemovedRankLowest ==
    last'.result = "ReplacedFile" =>
        \A e \in last'.removed : \A k \in DOMAIN file_map \ last'.removed :
            RankDuring(e) <= RankDuring(k)

\* residents of 5 MiB (X) and 2 MiB (Y), each accessed once, and the 1 MiB
\* file Z, accessed twice, is put to try_store
MiBExample ==
    /\ DOMAIN file_map = {"X", "Y"}
    /\ heap[file_map["X"]].size = 5 * 1024 * 1024
    /\ heap[file_map["Y"]].size = 2 * 1024 * 1024
    /\ RankDuring("X") = Isqrt(5 * 1024 * 1024)
    /\ RankDuring("Y") = Isqrt(2 * 1024 * 1024)
    /\ TriedStore(last') /\ last'.path = "Z" /\ last'.size = 1024 * 1024
    /\ "Z" \in DOMAIN access_count_map' /\ access_count_map'["Z"] = 2

\* C14: eviction takes the lowest-priority entries: whenever try_store returns
\* ReplacedFile, every entry it removed had a priority, computed at the time of
\* the call, less than or equal to that of every previously resident entry it
\* kept; with residents of 5 MiB and 2 MiB each accessed once, admitting a
\* 1 MiB file accessed twice removes the 2 MiB file and keeps the 5 MiB file.
C14_EvictsLowestPriority ==
    [][ /\ RemovedRankLowest
        /\ MiBExample =>
              /\ last'.result = "ReplacedFile"
              /\ last'.removed = {"Y"}
              /\ DOMAIN file_map' = {"X", "Z"}
              /\ file_map'["X"] = file_map["X"] ]_vars

\* C14 witness: the end of new_file_replaces_lowest_priority_file: the 1 MiB
\* file was stored in place of the 2 MiB file, the 5 MiB file is still there.
C14_Witness ==
    /\ last.op = "try_store" /\ last.path = "Z" /\ last.result = "ReplacedFile"
    /\ last.removed = {"Y"}
    /\ DOMAIN file_map = {"X", "Z"}
    /\ heap[file_map["X"]].size = 5 * 1024 * 1024
    /\ heap[file_map["Z"]].size = 1024 * 1024
    /\ access_count_map = [p \in Paths |-> IF p = "Z" THEN 2 ELSE 1]

RECURSIVE SumRankDuring(_)
SumRankDuring(keys) ==
    IF keys = {} THEN 0
    ELSE LET k == CHOOSE x \in keys : TRUE
         IN RankDuring(k) + SumRankDuring(keys \ {k})

\* the bytes the resident entries `keys` hold before the step
RECURSIVE BytesOf(_)
BytesOf(keys) ==
    IF keys = {} THEN 0
    ELSE LET k == CHOOSE x \in keys : TRUE
         IN heap[file_map[k]].size + BytesOf(keys \ {k})

\* the candidate's priority during the call of this step:
\* priority_function(access_count(path), file.size)
CandidateRank == CandidateRankWith(0, access_count_map', last')

\* the entries of file_map this step took away: gone, or (for a path other
\* than the stored one) bound to another buffer
Evicted ==
    {k \in DOMAIN file_map :
        \/ k \notin DOMAIN file_map'
        \/ k # last'.path /\ file_map'[k] # file_map[k]}

\* C15: whenever try_store returns ReplacedFile, the set E of entries it
\* removed frees at least required_space bytes, has a sum of priorities <= the
\* candidate's priority, and file_map after the call is file_map before minus
\* E plus the new entry; no call evicts a set whose combined priority exceeds
\* the candidate's.
C15_ReplacedFileContract ==
    [][ /\ last'.result = "ReplacedFile" =>
             /\ last'.removed \subseteq DOMAIN file_map
             /\ BytesOf(last'.removed)
                  >= (BytesOf(DOMAIN file_map) + last'.size) - size_limit
             /\ SumRankDuring(last'.removed) <= CandidateRank
             /\ DOMAIN file_map' = (DOMAIN file_map \ last'.removed) \cup {last'.path}
             /\ \A k \in DOMAIN file_map' \ {last'.path} : file_map'[k] = file_map[k]
             /\ heap'[file_map'[last'.path]].size = last'.size
             /\ last'.path \in DOMAIN file_map =>
                   file_map'[last'.path] # file_map[last'.path]
        /\ TriedStore(last') =>
             /\ Evicted \subseteq last'.removed
             /\ SumRankDuring(Evicted) <= CandidateRank ]_vars

\* C15 witness: a try_store that removed two entries to make room and stored
\* the file.
C15_Witness ==
    /\ last.result = "ReplacedFile"
    /\ Cardinality(last.removed) = 2
    /\ last.removed \cap DOMAIN file_map = {}
    /\ DOMAIN file_map = {last.path}

Left == DOMAIN file_map \ DOMAIN file_map'

\* C17: entry lifecycle: a path leaves file_map only through eviction: if a
\* path is in file_map before a step and not after it, the step is a try_store
\* (direct or inside get_or_cache) that returned ReplacedFile; a cache hit, a
\* failed read, increment_access_count, a rejected try_store and a try_store
\* returning InsertedFileIntoAvailableSpace remove no key from file_map.
C17_EntryLifecycle ==
    [][ /\ Left # {} =>
             /\ last'.op \in {"try_store", "get_or_cache"}
             /\ last'.result = "ReplacedFile"
             /\ Left \subseteq last'.removed
        /\ last'.result # "ReplacedFile" =>
             \A k \in DOMAIN file_map :
                 k \in DOMAIN file_map' /\ (k # last'.path => file_map'[k] = file_map[k])
      ]_vars

\* C17 witness: a get_or_cache whose try_store returned ReplacedFile took a
\* path out of file_map.
C17_Witness ==
    /\ last.op = "get_or_cache" /\ last.result = "ReplacedFile"
    /\ last.removed # {}
    /\ last.removed \cap DOMAIN file_map = {}
    /\ Cardinality(DOMAIN file_map) >= 2

\* C18: try_store never modifies access_count_map: for every outcome the
\* counters after the call equal the counters before it, for the candidate
\* path and for every evicted path (inside get_or_cache: the counters as
\* get_or_cache's own increment left them).
C18_StoreKeepsCounters ==
    [][ /\ last'.op = "try_store" =>
             /\ access_count_map' = access_count_map
             /\ \A e \in last'.removed \cup {last'.path} :
                   /\ e \in DOMAIN access_count_map' <=> e \in DOMAIN access_count_map
                   /\ e \in DOMAIN access_count_map =>
                         access_count_map'[e] = access_count_map[e]
        /\ (last'.op = "get_or_cache" /\ last'.read = "ok") =>
             /\ DOMAIN access_count_map'
                  = DOMAIN access_count_map \cup {last'.path}
             /\ \A e \in DOMAIN access_count_map \ {last'.path} :
                   access_count_map'[e] = access_count_map[e]
             /\ access_count_map'[last'.path]
                  = (IF last'.path \in DOMAIN access_count_map
                     THEN access_count_map[last'.path] ELSE 0) + 1
      ]_vars

\* C18 witness: a direct try_store evicted a counted path for a counted
\* candidate, and both counters are still there.
C18_Witness ==
    /\ last.op = "try_store" /\ last.result = "ReplacedFile"
    /\ last.removed # {}
    /\ last.removed \cup {last.path} \subseteq DOMAIN access_count_map
    /\ \E e \in last.removed : access_count_map[e] >= 2

\* the count the admission attempt of a get_or_cache miss works with
CountOnMiss ==
    (IF last'.path \in DOMAIN access_count_map
     THEN access_count_map[last'.path] ELSE 0) + 1

\* the candidate's priority at count n
RankOnMiss(n) ==
    IF priority_function = "balanced" THEN Isqrt(last'.size) * n ELSE n

\* C19: ordering on a miss: get_or_cache increments the counter before the
\* admission attempt, so the candidate's priority is computed from the
\* incremented counter: count 1 on the first access to a path, count n on the
\* n-th successful access of a non-resident path.
C19_IncrementBeforeAdmission ==
    [][ (last'.op = "get_or_cache" /\ last'.read = "ok") =>
          /\ access_count_map'[last'.path] = CountOnMiss
          /\ last'.path \notin DOMAIN access_count_map => CountOnMiss = 1
          /\ last'.result = "ReplacedFile" =>
                SumRankDuring(last'.removed) <= RankOnMiss(CountOnMiss)
          /\ last'.err = "Priority of new file isn't higher" =>
                SumRankDuring(DOMAIN file_map) > RankOnMiss(CountOnMiss)
          /\ \A x \in DOMAIN file_map :
                (/\ DOMAIN file_map = {x}
                 /\ (heap[file_map[x]].size + last'.size) - size_limit > 0
                 /\ last'.size <= size_limit) =>
                   (last'.result = "ReplacedFile"
                      <=> RankDuring(x) <= RankOnMiss(CountOnMiss))
      ]_vars

\* C19 witness: the first access to a path (counter 1 afterwards) displaced
\* a resident file, which a candidate of count 0 (priority 0) could not.
C19_Witness ==
    /\ last.op = "get_or_cache" /\ last.read = "ok"
    /\ last.result = "ReplacedFile" /\ last.removed # {}
    /\ last.size > 0 /\ size_limit > 0
    /\ access_count_map[last.path] = 1

\* q is the largest integer whose square is at most n
IsFloorSqrt(q, n) == q >= 0 /\ q * q <= n /\ n < (q + 1) * (q + 1)

\* the result of the last call is floor(sqrt(size)) * access_count under the
\* balanced policy and access_count under the access-only policy
PriorityValue ==
    last.op = "priority_function" =>
        /\ priority_function = "balanced" =>
              \E q \in 0..last.size :
                  /\ IsFloorSqrt(q, last.size)
                  /\ last.priority = q * last.access_count
        /\ priority_function = "access" => last.priority = last.access_count

\* of two calls for the same size, the one with the larger access_count does
\* not return the smaller priority
PriorityMonotone ==
    (/\ last.op = "priority_function" /\ last'.op = "priority_function"
     /\ last'.size = last.size
     /\ last'.access_count >= last.access_count) =>
        last'.priority >= last.priority

\* C20: balanced policy: for all access_count and size in a bounded range,
\* balanced_priority(access_count, size) = floor(sqrt(size)) * access_count,
\* non-decreasing in access_count for fixed size; the access-only policy
\* returns access_count for every size.
C20_PriorityFunctions == []PriorityValue /\ [][PriorityMonotone]_vars

\* C20 witness: the balanced priority of a 5,000,000-byte file accessed three
\* times is 2236 * 3.
C20_Witness ==
    /\ last.op = "priority_function"
    /\ priority_function = "balanced"
    /\ last.size = 5000000 /\ last.access_count = 3
    /\ last.priority = 6708

\* required_space of the try_store of this step
RequiredDuring == (BytesOf(DOMAIN file_map) + last'.size) - size_limit

\* C22: minimal eviction prefix: when try_store returns ReplacedFile the search
\* stopped at the first point where the freed space reached required_space:
\* the removed entries without the last removed one (one of highest priority
\* among the removed) hold less than required_space bytes; when
\* required_space = 0 no entry is removed.
C22_MinimalEvictionPrefix ==
    [][ last'.result = "ReplacedFile" =>
          /\ last'.removed # {} =>
                \E e \in last'.removed :
                    /\ \A d \in last'.removed : RankDuring(d) <= RankDuring(e)
                    /\ BytesOf(last'.removed \ {e}) < RequiredDuring
          /\ RequiredDuring = 0 => last'.removed = {}
      ]_vars

\* C22 witness: a get_or_cache whose search had to remove two entries, the
\* first of them not being enough.
C22_Witness ==
    /\ last.op = "get_or_cache" /\ last.result = "ReplacedFile"
    /\ Cardinality(last.removed) = 2
    /\ DOMAIN file_map = {last.path}
    /\ heap[file_map[last.path]].size = 4

\* the handlers inside get_or_cache on path p that have written the counter
\* and have not returned yet
Counting(p) ==
    {t \in Threads :
        /\ callers[t].path = p
        /\ \/ callers[t].pc = "store"
           \/ callers[t].pc = "unlock" /\ callers[t].handle # None}

\* the bytes file_map holds
ResidentBytes == BytesOf(DOMAIN file_map)

\* C21: externally locked concurrency: with every get_or_cache call run as
\* one critical section under a single mutex, in every interleaving the budget
\* invariant holds in every state and no counter update is lost: each path's
\* counter equals the number of completed get_or_cache calls on that path that
\* returned a handle (plus the calls that have counted and not yet returned).
C21_LockedCalls ==
    /\ ResidentBytes <= size_limit
    /\ \A p \in Paths :
          CountOr(access_count_map, p, 0) = served[p] + Cardinality(Counting(p))
    /\ mutex = 0 =>
          \A p \in Paths : CountOr(access_count_map, p, 0) = served[p]
    /\ \A t \in Threads :
          callers[t].pc \in {"get", "open", "read_count", "write_count", "store", "unlock"}
             => mutex = t

\* C21 witness: one handler is between reading and writing the counter of a
\* path while the other waits at the lock with a request for the same path,
\* which has been served before.
C21_Witness ==
    /\ mutex = 1
    /\ callers[1].pc = "write_count"
    /\ callers[2].pc = "lock"
    /\ callers[2].path = callers[1].path
    /\ served[callers[1].path] >= 1
    /\ file_map # <<>>

\* C23: eventual admission: under the balanced policy (file size >= 1) or the
\* access-only policy, a readable file with size <= size_limit that
\* get_or_cache is asked for repeatedly, while no other path is accessed or
\* stored, is resident in file_map after finitely many requests and stays
\* resident.
C23_EventualAdmission ==
    /\ <>[]("Z" \in DOMAIN file_map)
    /\ [][(last.op = "get_or_cache" /\ "Z" \in DOMAIN file_map)
             => "Z" \in DOMAIN file_map']_vars

\* C23 witness: Z was turned away at its first request and took the place of
\* both resident files at its second.
C23_Witness ==
    /\ last.op = "get_or_cache" /\ last.path = "Z"
    /\ last.result = "ReplacedFile" /\ last.removed = {"X", "Y"}
    /\ access_count_map = [p \in {"Z"} |-> 2]
    /\ DOMAIN file_map = {"Z"}

====
